---------------------------- MODULE Spec2Model ----------------------------
(***************************************************************************)
(* PHIVOLCS Earthquake Viewer (src/main.py): the data loader               *)
(* (load_scraper_module, fetch_earthquakes) and the two request handlers   *)
(* (api_earthquakes, home) with their normalise/filter loops.              *)
(*                                                                         *)
(* Python values are tagged records [t, n, s]: t is the name of the Python *)
(* type, n the number (an int or a bool as itself, a float in tenths), s   *)
(* the characters of a str or of a bytes (or the name of a float that is   *)
(* not counted in tenths).  A character is a one-character string.  The    *)
(* alphabet is ASCII, the Unicode spaces and the Unicode decimal digits; a *)
(* character with no escape of its own here, or beyond ASCII, is written   *)
(* as its Python escape ("\\x0b", "\\xa0", "\\u0663", "\\U0001d7ce"), in a   *)
(* message as well, where Python writes a printable character as itself.   *)
(* A mapping is a function from the keys it holds to values, so that an    *)
(* absent key is a key outside its DOMAIN.                                 *)
(***************************************************************************)
EXTENDS Integers, Sequences, FiniteSets, TLC

----------------------------------------------------------------------------
(* Python values *)

V(t, n, s) == [t |-> t, n |-> n, s |-> s]

PyStr(s)   == V("str", 0, s)
PyBytes(s) == V("bytes", 0, s)
PyInt(n)   == V("int", n, << >>)
PyBool(b)  == V("bool", IF b THEN 1 ELSE 0, << >>)
None       == V("NoneType", 0, << >>)
BigInt     == V("int", 0, <<"1", "0", "*", "*", "4", "0", "0">>)  \* above the float range

(* A float is the class of the doubles between two tenths: Flt(n) holds    *)
(* the doubles from float(n/10) up to, and without, float((n+1)/10) (for a *)
(* negative n, their opposites): Flt(45) holds 4.5, Flt(30) holds 3.0 and  *)
(* nothing below it.  The tenths are counted below 10^8; Large holds every *)
(* finite double from 10^8 on.                                             *)
Flt(n)     == V("float", n, << >>)
LargeFrom  == 10^8
Large      == V("float", 0, <<"l", "a", "r", "g", "e">>)
NegLarge   == V("float", 0, <<"-", "l", "a", "r", "g", "e">>)
PosInf     == V("float", 0, <<"i", "n", "f">>)
NegInf     == V("float", 0, <<"-", "i", "n", "f">>)
NaN        == V("float", 0, <<"n", "a", "n">>)

Negated(f) ==
    CASE f = PosInf -> NegInf
      [] f = Large  -> NegLarge
      [] f = NaN    -> NaN
      [] OTHER      -> Flt(0 - f.n)

IsFinite(v) == v.t = "float" => v \notin {PosInf, NegInf, NaN}

Digits == {"0", "1", "2", "3", "4", "5", "6", "7", "8", "9"}

DigitVal(c) ==
    CASE c = "0" -> 0 [] c = "1" -> 1 [] c = "2" -> 2 [] c = "3" -> 3
      [] c = "4" -> 4 [] c = "5" -> 5 [] c = "6" -> 6 [] c = "7" -> 7
      [] c = "8" -> 8 [] c = "9" -> 9

(* The outcome of an expression that may raise. *)
Ok(v)        == [ok |-> TRUE, val |-> v, exc |-> "", msg |-> ""]
Raise(e, m)  == [ok |-> FALSE, val |-> None, exc |-> e, msg |-> m]

----------------------------------------------------------------------------
(* Numbers longer than a machine word, as the sequence of their decimal    *)
(* digits, most significant first (Norm drops the leading zeros): the      *)
(* arithmetic float() does on the digits of a literal                      *)

Least(S) == CHOOSE k \in S : \A j \in S : k <= j

Norm(x) ==
    LET nz == {k \in 1..Len(x) : x[k] # 0}
    IN  IF nz = {} THEN << >> ELSE SubSeq(x, Least(nz), Len(x))

(* x >= y, for two sequences of the same length *)
LexGeq(x, y) ==
    LET diff == {k \in 1..Len(x) : x[k] # y[k]}
    IN  diff = {} \/ x[Least(diff)] > y[Least(diff)]

PadRight(x, n) == [k \in 1..n |-> IF k <= Len(x) THEN x[k] ELSE 0]

RECURSIVE DecOf(_)
DecOf(x) == IF x = << >> THEN 0 ELSE 10 * DecOf(SubSeq(x, 1, Len(x) - 1)) + x[Len(x)]

RECURSIVE BinaryOf(_)
BinaryOf(n) == IF n = 0 THEN << >> ELSE Append(BinaryOf(n \div 2), n % 2)

----------------------------------------------------------------------------
(* Rounding to the nearest double, ties to even.  A positive number below  *)
(* 10^8 is i + 0.f, i a number and f its fraction, held as Limbs numbers   *)
(* of LimbDigits digits each; the double nearest to it is given as the     *)
(* place of its leading bit and the MantissaBits bits of its significand.  *)

MantissaBits == 53

(* Below 10^8 a double, and the middle of two neighbouring doubles from    *)
(* 1/16 on, has at most 57 fraction digits: beyond the digits held only a  *)
(* digit that is not 0 counts, and it is counted in the last digit held.   *)
LimbDigits == 4
Limbs == 16
LimbBase == 10^LimbDigits

(* The bits of the fraction are taken ChunkBits at a time.                 *)
ChunkBits == 16

(* m * 0.f, for m up to 2^ChunkBits: its whole part and the fraction left  *)
RECURSIVE Times(_, _)
Times(f, m) ==
    IF f = << >> THEN [whole |-> 0, frac |-> << >>]
    ELSE LET t == Times(Tail(f), m)
             v == m * Head(f) + t.whole
         IN  [whole |-> v \div LimbBase, frac |-> <<v % LimbBase>> \o t.frac]

(* n < 2^k in k bits *)
BitsOf(n, k) == [j \in 1..k |-> (n \div 2^(k - j)) % 2]

(* the bits of i + 0.f from its leading bit on, bits being those found so  *)
(* far and lead the place of the leading bit (0 for the units)             *)
RECURSIVE Significand(_, _, _)
Significand(bits, lead, f) ==
    IF Len(bits) = MantissaBits THEN [bits |-> bits, lead |-> lead, rest |-> f]
    ELSE IF bits = << >>
         THEN LET t == Times(f, 2^ChunkBits)
                  b == BinaryOf(t.whole)
              IN  Significand(b, lead - (ChunkBits - Len(b)), t.frac)
    ELSE LET left == MantissaBits - Len(bits)
             k    == IF left < ChunkBits THEN left ELSE ChunkBits
             t    == Times(f, 2^k)
         IN  Significand(bits \o BitsOf(t.whole, k), lead, t.frac)

RECURSIVE Incremented(_)
Incremented(bits) ==
    IF bits = << >> THEN << >>
    ELSE IF bits[Len(bits)] = 0 THEN [bits EXCEPT ![Len(bits)] = 1]
    ELSE Append(Incremented(SubSeq(bits, 1, Len(bits) - 1)), 0)

NearestDouble(i, f) ==
    LET whole == BinaryOf(i)
        s     == Significand(whole, IF i = 0 THEN 0 - 1 ELSE Len(whole) - 1, f)
        half  == [k \in 1..Len(f) |-> IF k = 1 THEN LimbBase \div 2 ELSE 0]
        up    == IF s.rest = half THEN s.bits[MantissaBits] = 1
                 ELSE 2 * s.rest[1] >= LimbBase
        ones  == \A k \in 1..MantissaBits : s.bits[k] = 1
    IN  IF ~up THEN [lead |-> s.lead, bits |-> s.bits]
        ELSE IF ones THEN [lead |-> s.lead + 1,
                           bits |-> [k \in 1..MantissaBits |-> IF k = 1 THEN 1 ELSE 0]]
        ELSE [lead |-> s.lead, bits |-> Incremented(s.bits)]

(* 2^1024 - 2^970, half a step above the largest double: from here on a    *)
(* literal rounds to inf                                                   *)
OverflowBound ==
    << 1, 7, 9, 7, 6, 9, 3, 1, 3, 4, 8, 6, 2, 3, 1, 5, 8, 0, 7, 9,
       3, 7, 2, 8, 9, 7, 1, 4, 0, 5, 3, 0, 3, 4, 1, 5, 0, 7, 9, 9,
       3, 4, 1, 3, 2, 7, 1, 0, 0, 3, 7, 8, 2, 6, 9, 3, 6, 1, 7, 3,
       7, 7, 8, 9, 8, 0, 4, 4, 4, 9, 6, 8, 2, 9, 2, 7, 6, 4, 7, 5,
       0, 9, 4, 6, 6, 4, 9, 0, 1, 7, 9, 7, 7, 5, 8, 7, 2, 0, 7, 0,
       9, 6, 3, 3, 0, 2, 8, 6, 4, 1, 6, 6, 9, 2, 8, 8, 7, 9, 1, 0,
       9, 4, 6, 5, 5, 5, 5, 4, 7, 8, 5, 1, 9, 4, 0, 4, 0, 2, 6, 3,
       0, 6, 5, 7, 4, 8, 8, 6, 7, 1, 5, 0, 5, 8, 2, 0, 6, 8, 1, 9,
       0, 8, 9, 0, 2, 0, 0, 0, 7, 0, 8, 3, 8, 3, 6, 7, 6, 2, 7, 3,
       8, 5, 4, 8, 4, 5, 8, 1, 7, 7, 1, 1, 5, 3, 1, 7, 6, 4, 4, 7,
       5, 7, 3, 0, 2, 7, 0, 0, 6, 9, 8, 5, 5, 5, 7, 1, 3, 6, 6, 9,
       5, 9, 6, 2, 2, 8, 4, 2, 9, 1, 4, 8, 1, 9, 8, 6, 0, 8, 3, 4,
       9, 3, 6, 4, 7, 5, 2, 9, 2, 7, 1, 9, 0, 7, 4, 1, 6, 8, 4, 4,
       4, 3, 6, 5, 5, 1, 0, 7, 0, 4, 3, 4, 2, 7, 1, 1, 5, 5, 9, 6,
       9, 9, 5, 0, 8, 0, 9, 3, 0, 4, 2, 8, 8, 0, 1, 7, 7, 9, 0, 4,
       1, 7, 4, 4, 9, 7, 7, 9, 2 >>

(* The float of the positive number 0.d1 d2 ... dL * 10^p, where d1 ... dL *)
(* are the digits of x and d1 is not 0.  Below 10^8 it is Flt(n0) for n0   *)
(* its tenths, or Flt(n0 + 1) when it rounds to the double of the next     *)
(* tenth.                                                                  *)
FloatOfDecimal(x, p) ==
    LET L    == Len(x)
        w    == IF L > Len(OverflowBound) THEN L ELSE Len(OverflowBound)
        at(j) == IF j >= 1 /\ j <= L THEN x[j] ELSE 0
        n0   == DecOf(PadRight(x, p + 1))
        rest == SubSeq(x, p + 2, L)
        digit(k) == IF k < Limbs * LimbDigits THEN at(p + k)
                    ELSE IF \E j \in 1..L : j >= p + k /\ x[j] # 0 THEN 1 ELSE 0
        frac == [i \in 1..Limbs |->
                    DecOf([j \in 1..LimbDigits |-> digit((i - 1) * LimbDigits + j)])]
        next == [i \in 1..Limbs |->
                    IF i = 1 THEN ((n0 + 1) % 10) * (LimbBase \div 10) ELSE 0]
    IN  IF p > Len(OverflowBound) THEN PosInf
        ELSE IF p = Len(OverflowBound)
             THEN IF LexGeq(PadRight(x, w), PadRight(OverflowBound, w))
                  THEN PosInf ELSE Large
        ELSE IF p > 8 THEN Large
        ELSE IF p < 0 - 1 THEN Flt(0)
        ELSE IF \A k \in 1..Len(rest) : rest[k] = 0 THEN Flt(n0)
        ELSE IF NearestDouble(n0 \div 10, frac) = NearestDouble((n0 + 1) \div 10, next)
             THEN (IF n0 + 1 >= 10 * LargeFrom THEN Large ELSE Flt(n0 + 1))
        ELSE Flt(n0)

----------------------------------------------------------------------------
(* float(x), main.py lines 59 and 86 *)

(* What float() strips from the two ends of its argument: the six ASCII   *)
(* spaces.                                                                 *)
AsciiSpace == {" ", "\t", "\n", "\r", "\f", "\\x0b"}

(* The spaces beyond ASCII *)
UnicodeSpace ==
    { "\\x85", "\\xa0", "\\u1680", "\\u2000", "\\u2001", "\\u2002",
      "\\u2003", "\\u2004", "\\u2005", "\\u2006", "\\u2007", "\\u2008",
      "\\u2009", "\\u200a", "\\u2028", "\\u2029", "\\u202f", "\\u205f",
      "\\u3000" }

(* The decimal digits beyond ASCII (category Nd), a row for each run of    *)
(* ten, from its zero to its nine.                                         *)
UnicodeDigitRows ==
    << <<"\\u0660", "\\u0661", "\\u0662", "\\u0663", "\\u0664", "\\u0665", "\\u0666", "\\u0667", "\\u0668", "\\u0669">>,
       <<"\\u06f0", "\\u06f1", "\\u06f2", "\\u06f3", "\\u06f4", "\\u06f5", "\\u06f6", "\\u06f7", "\\u06f8", "\\u06f9">>,
       <<"\\u07c0", "\\u07c1", "\\u07c2", "\\u07c3", "\\u07c4", "\\u07c5", "\\u07c6", "\\u07c7", "\\u07c8", "\\u07c9">>,
       <<"\\u0966", "\\u0967", "\\u0968", "\\u0969", "\\u096a", "\\u096b", "\\u096c", "\\u096d", "\\u096e", "\\u096f">>,
       <<"\\u09e6", "\\u09e7", "\\u09e8", "\\u09e9", "\\u09ea", "\\u09eb", "\\u09ec", "\\u09ed", "\\u09ee", "\\u09ef">>,
       <<"\\u0a66", "\\u0a67", "\\u0a68", "\\u0a69", "\\u0a6a", "\\u0a6b", "\\u0a6c", "\\u0a6d", "\\u0a6e", "\\u0a6f">>,
       <<"\\u0ae6", "\\u0ae7", "\\u0ae8", "\\u0ae9", "\\u0aea", "\\u0aeb", "\\u0aec", "\\u0aed", "\\u0aee", "\\u0aef">>,
       <<"\\u0b66", "\\u0b67", "\\u0b68", "\\u0b69", "\\u0b6a", "\\u0b6b", "\\u0b6c", "\\u0b6d", "\\u0b6e", "\\u0b6f">>,
       <<"\\u0be6", "\\u0be7", "\\u0be8", "\\u0be9", "\\u0bea", "\\u0beb", "\\u0bec", "\\u0bed", "\\u0bee", "\\u0bef">>,
       <<"\\u0c66", "\\u0c67", "\\u0c68", "\\u0c69", "\\u0c6a", "\\u0c6b", "\\u0c6c", "\\u0c6d", "\\u0c6e", "\\u0c6f">>,
       <<"\\u0ce6", "\\u0ce7", "\\u0ce8", "\\u0ce9", "\\u0cea", "\\u0ceb", "\\u0cec", "\\u0ced", "\\u0cee", "\\u0cef">>,
       <<"\\u0d66", "\\u0d67", "\\u0d68", "\\u0d69", "\\u0d6a", "\\u0d6b", "\\u0d6c", "\\u0d6d", "\\u0d6e", "\\u0d6f">>,
       <<"\\u0de6", "\\u0de7", "\\u0de8", "\\u0de9", "\\u0dea", "\\u0deb", "\\u0dec", "\\u0ded", "\\u0dee", "\\u0def">>,
       <<"\\u0e50", "\\u0e51", "\\u0e52", "\\u0e53", "\\u0e54", "\\u0e55", "\\u0e56", "\\u0e57", "\\u0e58", "\\u0e59">>,
       <<"\\u0ed0", "\\u0ed1", "\\u0ed2", "\\u0ed3", "\\u0ed4", "\\u0ed5", "\\u0ed6", "\\u0ed7", "\\u0ed8", "\\u0ed9">>,
       <<"\\u0f20", "\\u0f21", "\\u0f22", "\\u0f23", "\\u0f24", "\\u0f25", "\\u0f26", "\\u0f27", "\\u0f28", "\\u0f29">>,
       <<"\\u1040", "\\u1041", "\\u1042", "\\u1043", "\\u1044", "\\u1045", "\\u1046", "\\u1047", "\\u1048", "\\u1049">>,
       <<"\\u1090", "\\u1091", "\\u1092", "\\u1093", "\\u1094", "\\u1095", "\\u1096", "\\u1097", "\\u1098", "\\u1099">>,
       <<"\\u17e0", "\\u17e1", "\\u17e2", "\\u17e3", "\\u17e4", "\\u17e5", "\\u17e6", "\\u17e7", "\\u17e8", "\\u17e9">>,
       <<"\\u1810", "\\u1811", "\\u1812", "\\u1813", "\\u1814", "\\u1815", "\\u1816", "\\u1817", "\\u1818", "\\u1819">>,
       <<"\\u1946", "\\u1947", "\\u1948", "\\u1949", "\\u194a", "\\u194b", "\\u194c", "\\u194d", "\\u194e", "\\u194f">>,
       <<"\\u19d0", "\\u19d1", "\\u19d2", "\\u19d3", "\\u19d4", "\\u19d5", "\\u19d6", "\\u19d7", "\\u19d8", "\\u19d9">>,
       <<"\\u1a80", "\\u1a81", "\\u1a82", "\\u1a83", "\\u1a84", "\\u1a85", "\\u1a86", "\\u1a87", "\\u1a88", "\\u1a89">>,
       <<"\\u1a90", "\\u1a91", "\\u1a92", "\\u1a93", "\\u1a94", "\\u1a95", "\\u1a96", "\\u1a97", "\\u1a98", "\\u1a99">>,
       <<"\\u1b50", "\\u1b51", "\\u1b52", "\\u1b53", "\\u1b54", "\\u1b55", "\\u1b56", "\\u1b57", "\\u1b58", "\\u1b59">>,
       <<"\\u1bb0", "\\u1bb1", "\\u1bb2", "\\u1bb3", "\\u1bb4", "\\u1bb5", "\\u1bb6", "\\u1bb7", "\\u1bb8", "\\u1bb9">>,
       <<"\\u1c40", "\\u1c41", "\\u1c42", "\\u1c43", "\\u1c44", "\\u1c45", "\\u1c46", "\\u1c47", "\\u1c48", "\\u1c49">>,
       <<"\\u1c50", "\\u1c51", "\\u1c52", "\\u1c53", "\\u1c54", "\\u1c55", "\\u1c56", "\\u1c57", "\\u1c58", "\\u1c59">>,
       <<"\\ua620", "\\ua621", "\\ua622", "\\ua623", "\\ua624", "\\ua625", "\\ua626", "\\ua627", "\\ua628", "\\ua629">>,
       <<"\\ua8d0", "\\ua8d1", "\\ua8d2", "\\ua8d3", "\\ua8d4", "\\ua8d5", "\\ua8d6", "\\ua8d7", "\\ua8d8", "\\ua8d9">>,
       <<"\\ua900", "\\ua901", "\\ua902", "\\ua903", "\\ua904", "\\ua905", "\\ua906", "\\ua907", "\\ua908", "\\ua909">>,
       <<"\\ua9d0", "\\ua9d1", "\\ua9d2", "\\ua9d3", "\\ua9d4", "\\ua9d5", "\\ua9d6", "\\ua9d7", "\\ua9d8", "\\ua9d9">>,
       <<"\\ua9f0", "\\ua9f1", "\\ua9f2", "\\ua9f3", "\\ua9f4", "\\ua9f5", "\\ua9f6", "\\ua9f7", "\\ua9f8", "\\ua9f9">>,
       <<"\\uaa50", "\\uaa51", "\\uaa52", "\\uaa53", "\\uaa54", "\\uaa55", "\\uaa56", "\\uaa57", "\\uaa58", "\\uaa59">>,
       <<"\\uabf0", "\\uabf1", "\\uabf2", "\\uabf3", "\\uabf4", "\\uabf5", "\\uabf6", "\\uabf7", "\\uabf8", "\\uabf9">>,
       <<"\\uff10", "\\uff11", "\\uff12", "\\uff13", "\\uff14", "\\uff15", "\\uff16", "\\uff17", "\\uff18", "\\uff19">>,
       <<"\\U000104a0", "\\U000104a1", "\\U000104a2", "\\U000104a3", "\\U000104a4", "\\U000104a5", "\\U000104a6", "\\U000104a7", "\\U000104a8", "\\U000104a9">>,
       <<"\\U00010d30", "\\U00010d31", "\\U00010d32", "\\U00010d33", "\\U00010d34", "\\U00010d35", "\\U00010d36", "\\U00010d37", "\\U00010d38", "\\U00010d39">>,
       <<"\\U00011066", "\\U00011067", "\\U00011068", "\\U00011069", "\\U0001106a", "\\U0001106b", "\\U0001106c", "\\U0001106d", "\\U0001106e", "\\U0001106f">>,
       <<"\\U000110f0", "\\U000110f1", "\\U000110f2", "\\U000110f3", "\\U000110f4", "\\U000110f5", "\\U000110f6", "\\U000110f7", "\\U000110f8", "\\U000110f9">>,
       <<"\\U00011136", "\\U00011137", "\\U00011138", "\\U00011139", "\\U0001113a", "\\U0001113b", "\\U0001113c", "\\U0001113d", "\\U0001113e", "\\U0001113f">>,
       <<"\\U000111d0", "\\U000111d1", "\\U000111d2", "\\U000111d3", "\\U000111d4", "\\U000111d5", "\\U000111d6", "\\U000111d7", "\\U000111d8", "\\U000111d9">>,
       <<"\\U000112f0", "\\U000112f1", "\\U000112f2", "\\U000112f3", "\\U000112f4", "\\U000112f5", "\\U000112f6", "\\U000112f7", "\\U000112f8", "\\U000112f9">>,
       <<"\\U00011450", "\\U00011451", "\\U00011452", "\\U00011453", "\\U00011454", "\\U00011455", "\\U00011456", "\\U00011457", "\\U00011458", "\\U00011459">>,
       <<"\\U000114d0", "\\U000114d1", "\\U000114d2", "\\U000114d3", "\\U000114d4", "\\U000114d5", "\\U000114d6", "\\U000114d7", "\\U000114d8", "\\U000114d9">>,
       <<"\\U00011650", "\\U00011651", "\\U00011652", "\\U00011653", "\\U00011654", "\\U00011655", "\\U00011656", "\\U00011657", "\\U00011658", "\\U00011659">>,
       <<"\\U000116c0", "\\U000116c1", "\\U000116c2", "\\U000116c3", "\\U000116c4", "\\U000116c5", "\\U000116c6", "\\U000116c7", "\\U000116c8", "\\U000116c9">>,
       <<"\\U00011730", "\\U00011731", "\\U00011732", "\\U00011733", "\\U00011734", "\\U00011735", "\\U00011736", "\\U00011737", "\\U00011738", "\\U00011739">>,
       <<"\\U000118e0", "\\U000118e1", "\\U000118e2", "\\U000118e3", "\\U000118e4", "\\U000118e5", "\\U000118e6", "\\U000118e7", "\\U000118e8", "\\U000118e9">>,
       <<"\\U00011950", "\\U00011951", "\\U00011952", "\\U00011953", "\\U00011954", "\\U00011955", "\\U00011956", "\\U00011957", "\\U00011958", "\\U00011959">>,
       <<"\\U00011c50", "\\U00011c51", "\\U00011c52", "\\U00011c53", "\\U00011c54", "\\U00011c55", "\\U00011c56", "\\U00011c57", "\\U00011c58", "\\U00011c59">>,
       <<"\\U00011d50", "\\U00011d51", "\\U00011d52", "\\U00011d53", "\\U00011d54", "\\U00011d55", "\\U00011d56", "\\U00011d57", "\\U00011d58", "\\U00011d59">>,
       <<"\\U00011da0", "\\U00011da1", "\\U00011da2", "\\U00011da3", "\\U00011da4", "\\U00011da5", "\\U00011da6", "\\U00011da7", "\\U00011da8", "\\U00011da9">>,
       <<"\\U00016a60", "\\U00016a61", "\\U00016a62", "\\U00016a63", "\\U00016a64", "\\U00016a65", "\\U00016a66", "\\U00016a67", "\\U00016a68", "\\U00016a69">>,
       <<"\\U00016ac0", "\\U00016ac1", "\\U00016ac2", "\\U00016ac3", "\\U00016ac4", "\\U00016ac5", "\\U00016ac6", "\\U00016ac7", "\\U00016ac8", "\\U00016ac9">>,
       <<"\\U00016b50", "\\U00016b51", "\\U00016b52", "\\U00016b53", "\\U00016b54", "\\U00016b55", "\\U00016b56", "\\U00016b57", "\\U00016b58", "\\U00016b59">>,
       <<"\\U0001d7ce", "\\U0001d7cf", "\\U0001d7d0", "\\U0001d7d1", "\\U0001d7d2", "\\U0001d7d3", "\\U0001d7d4", "\\U0001d7d5", "\\U0001d7d6", "\\U0001d7d7">>,
       <<"\\U0001d7d8", "\\U0001d7d9", "\\U0001d7da", "\\U0001d7db", "\\U0001d7dc", "\\U0001d7dd", "\\U0001d7de", "\\U0001d7df", "\\U0001d7e0", "\\U0001d7e1">>,
       <<"\\U0001d7e2", "\\U0001d7e3", "\\U0001d7e4", "\\U0001d7e5", "\\U0001d7e6", "\\U0001d7e7", "\\U0001d7e8", "\\U0001d7e9", "\\U0001d7ea", "\\U0001d7eb">>,
       <<"\\U0001d7ec", "\\U0001d7ed", "\\U0001d7ee", "\\U0001d7ef", "\\U0001d7f0", "\\U0001d7f1", "\\U0001d7f2", "\\U0001d7f3", "\\U0001d7f4", "\\U0001d7f5">>,
       <<"\\U0001d7f6", "\\U0001d7f7", "\\U0001d7f8", "\\U0001d7f9", "\\U0001d7fa", "\\U0001d7fb", "\\U0001d7fc", "\\U0001d7fd", "\\U0001d7fe", "\\U0001d7ff">>,
       <<"\\U0001e140", "\\U0001e141", "\\U0001e142", "\\U0001e143", "\\U0001e144", "\\U0001e145", "\\U0001e146", "\\U0001e147", "\\U0001e148", "\\U0001e149">>,
       <<"\\U0001e2f0", "\\U0001e2f1", "\\U0001e2f2", "\\U0001e2f3", "\\U0001e2f4", "\\U0001e2f5", "\\U0001e2f6", "\\U0001e2f7", "\\U0001e2f8", "\\U0001e2f9">>,
       <<"\\U0001e950", "\\U0001e951", "\\U0001e952", "\\U0001e953", "\\U0001e954", "\\U0001e955", "\\U0001e956", "\\U0001e957", "\\U0001e958", "\\U0001e959">>,
       <<"\\U0001fbf0", "\\U0001fbf1", "\\U0001fbf2", "\\U0001fbf3", "\\U0001fbf4", "\\U0001fbf5", "\\U0001fbf6", "\\U0001fbf7", "\\U0001fbf8", "\\U0001fbf9">> >>

UnicodeDigits ==
    {UnicodeDigitRows[i][j] : i \in 1..Len(UnicodeDigitRows), j \in 1..10}

(* the ASCII digit of the same value *)
DecimalOf(c) ==
    LET j == CHOOSE n \in 1..10 :
                 \E i \in 1..Len(UnicodeDigitRows) : UnicodeDigitRows[i][n] = c
    IN  <<"0", "1", "2", "3", "4", "5", "6", "7", "8", "9">>[j]

(* What float() reads of its argument: of a str, a space beyond ASCII as a *)
(* blank and a digit beyond ASCII as its ASCII digit, every other          *)
(* character as it is; a bytes as it is.                                   *)
ToAscii(v) ==
    IF v.t # "str" THEN v.s
    ELSE [k \in 1..Len(v.s) |->
             IF v.s[k] \in UnicodeSpace THEN " "
             ELSE IF v.s[k] \in UnicodeDigits THEN DecimalOf(v.s[k])
             ELSE v.s[k]]

RECURSIVE LStrip(_, _)
LStrip(s, ws) == IF s # << >> /\ Head(s) \in ws THEN LStrip(Tail(s), ws) ELSE s

RECURSIVE RStrip(_, _)
RStrip(s, ws) ==
    IF s # << >> /\ s[Len(s)] \in ws THEN RStrip(SubSeq(s, 1, Len(s) - 1), ws) ELSE s

Strip(s, ws) == RStrip(LStrip(s, ws), ws)

(* repr() of a str or bytes of the alphabet, as the message of ValueError  *)
(* shows it                                                                *)
ReprChar(c, quote) ==
    CASE c = "\t" -> "\\t" [] c = "\n" -> "\\n" [] c = "\r" -> "\\r"
      [] c = "\f" -> "\\x0c" [] c = "\\" -> "\\\\"
      [] c = quote -> "\\" \o c
      [] OTHER -> c

RECURSIVE ReprChars(_, _)
ReprChars(s, quote) ==
    IF s = << >> THEN "" ELSE ReprChar(Head(s), quote) \o ReprChars(Tail(s), quote)

Repr(v) ==
    LET has(c) == \E k \in 1..Len(v.s) : v.s[k] = c
        quote  == IF has("'") /\ ~has("\"") THEN "\"" ELSE "'"
    IN  (IF v.t = "bytes" THEN "b" ELSE "") \o quote \o ReprChars(v.s, quote) \o quote

ValueErrorMsg(v) == "could not convert string to float: " \o Repr(v)

(* the letters that float() reads in either case *)
Lower(c) ==
    CASE c = "I" -> "i" [] c = "N" -> "n" [] c = "F" -> "f" [] c = "T" -> "t"
      [] c = "Y" -> "y" [] c = "A" -> "a" [] c = "E" -> "e"
      [] OTHER -> c

(* an underscore stands between two digits, and nowhere else *)
UnderscoresOk(s) ==
    \A k \in 1..Len(s) :
        s[k] = "_" => /\ k > 1 /\ s[k - 1] \in Digits
                      /\ k < Len(s) /\ s[k + 1] \in Digits

WithoutUnderscores(s) == SelectSeq(s, LAMBDA c : c # "_")

DotsOf(s) == {k \in 1..Len(s) : s[k] = "."}

(* "ddd", "ddd.", ".ddd" or "ddd.ddd" *)
IsDecimal(s) ==
    /\ \A k \in 1..Len(s) : s[k] \in Digits \cup {"."}
    /\ Cardinality(DotsOf(s)) <= 1
    /\ \E k \in 1..Len(s) : s[k] \in Digits

(* "dd", "+dd" or "-dd" *)
IsExponent(s) ==
    LET d == IF s # << >> /\ Head(s) \in {"+", "-"} THEN Tail(s) ELSE s
    IN  d # << >> /\ \A k \in 1..Len(d) : d[k] \in Digits

DigitVals(s) == [k \in 1..Len(s) |-> DigitVal(s[k])]

(* The longest run of digits float() reads, and the exponent it takes for  *)
(* one written with more than nine digits.                                 *)
MaxDigits == 10^9
MaxAbsExp == 1100000000

(* the exponent as a number, its leading zeros aside *)
ExponentOf(s) ==
    LET neg == s # << >> /\ Head(s) = "-"
        d   == Norm(DigitVals(IF s # << >> /\ Head(s) \in {"+", "-"} THEN Tail(s) ELSE s))
        e   == IF Len(d) > 9 THEN MaxAbsExp ELSE DecOf(d)
    IN  IF neg THEN 0 - e ELSE e

(* the digits of a mantissa from its first that is not 0 on, and how many  *)
(* digits it has after the point                                           *)
MantissaOf(mant) ==
    LET dot   == IF DotsOf(mant) = {} THEN Len(mant) + 1
                 ELSE CHOOSE k \in DotsOf(mant) : TRUE
        whole == DigitVals(SubSeq(mant, 1, dot - 1))
        frac  == DigitVals(SubSeq(mant, dot + 1, Len(mant)))
    IN  [x |-> Norm(whole \o frac), fraclen |-> Len(frac)]

(* the float of the unsigned numeral mant e ex *)
NumeralValue(mant, ex) ==
    LET m == MantissaOf(mant)
    IN  IF m.x = << >> THEN Flt(0)
        ELSE FloatOfDecimal(m.x, Len(m.x) + ExponentOf(ex) - m.fraclen)

ParseUnsigned(s, v) ==
    LET es   == {k \in 1..Len(s) : s[k] = "e"}
        at   == IF es = {} THEN Len(s) + 1 ELSE Least(es)
        mant == SubSeq(s, 1, at - 1)
        ex   == SubSeq(s, at + 1, Len(s))
    IN  IF s \in {<<"i", "n", "f">>, <<"i", "n", "f", "i", "n", "i", "t", "y">>}
        THEN Ok(PosInf)
        ELSE IF s = <<"n", "a", "n">> THEN Ok(NaN)
        ELSE IF /\ IsDecimal(mant)
                /\ Len(MantissaOf(mant).x) <= MaxDigits
                /\ MantissaOf(mant).fraclen <= MaxDigits
                /\ es # {} => IsExponent(ex)
             THEN Ok(NumeralValue(mant, IF es = {} THEN <<"0">> ELSE ex))
        ELSE Raise("ValueError", ValueErrorMsg(v))

(* float(v) for a str or a bytes v *)
ParseFloat(v) ==
    LET b    == Strip(ToAscii(v), AsciiSpace)
        sign == b # << >> /\ Head(b) \in {"+", "-"}
        u    == IF sign THEN Tail(b) ELSE b
        body == WithoutUnderscores([k \in 1..Len(u) |-> Lower(u[k])])
        r    == ParseUnsigned(body, v)
    IN  IF ~UnderscoresOk(u) THEN Raise("ValueError", ValueErrorMsg(v))
        ELSE IF r.ok /\ sign /\ Head(b) = "-" THEN Ok(Negated(r.val))
        ELSE r

(* A value of any other type of the model defines neither __float__ nor    *)
(* __index__.                                                              *)
FloatOf(v) ==
    CASE v.t = "float" -> Ok(v)
      [] v.t = "bool" -> Ok(Flt(10 * v.n))
      [] v.t = "int" ->
            IF v = BigInt
            THEN Raise("OverflowError", "int too large to convert to float")
            ELSE IF v.n >= LargeFrom THEN Ok(Large)
            ELSE IF 0 - v.n >= LargeFrom THEN Ok(NegLarge)
            ELSE Ok(Flt(10 * v.n))
      [] v.t \in {"str", "bytes"} -> ParseFloat(v)
      [] OTHER ->
            Raise("TypeError",
                  "float() argument must be a string or a real number, not '"
                      \o v.t \o "'")

(* mag >= 3.0 on floats: IEEE comparison, false for nan. *)
Threshold == 30

GreaterEq(f, tenths) ==
    IF f.s = << >> THEN f.n >= tenths ELSE f \in {PosInf, Large}

(* dict.get(key, default) *)
Get(eq, key, default) == IF key \in DOMAIN eq THEN eq[key] ELSE default

----------------------------------------------------------------------------
(* The scraper unit: the file at SCRAPER_FILE and the module it defines.   *)
(* An attribute binding is callable or not; a callable raises an error of  *)
(* the class exc with the message msg, or returns ret; a non-callable      *)
(* attribute has the value ret.  A value that stands                       *)
(* for the records is iterable or not (type is its Python type), and its   *)
(* items are mappings (kv) or not.                                         *)

(* Mutant: get_data probed before get_earthquakes. *)
FnNamesReordered == <<"scrape_phivolcs", "scrape", "get_data", "get_earthquakes">>

FnNames == <<"scrape_phivolcs", "scrape", "get_earthquakes", "get_data">>

Item(kv)          == [mapping |-> TRUE, kv |-> kv]
NonMapping        == [mapping |-> FALSE, kv |-> << >>]        \* e.g. the int 7
ListOf(items)     == [iterable |-> TRUE, type |-> "list", items |-> items]
NotIterableOf(t)  == [iterable |-> FALSE, type |-> t, items |-> << >>]
NotIterable       == NotIterableOf("NoneType")                \* None
FunctionObject    == NotIterableOf("function")                \* a function, not called

Callable(ret) ==
    [callable |-> TRUE, raises |-> FALSE, exc |-> "", msg |-> "", ret |-> ret]
Raising(exc, msg) ==
    [callable |-> TRUE, raises |-> TRUE, exc |-> exc, msg |-> msg, ret |-> NotIterable]
Attribute(val) ==
    [callable |-> FALSE, raises |-> FALSE, exc |-> "", msg |-> "", ret |-> val]

(* The file compiles or not (SyntaxError); compiled, its execution binds   *)
(* attrs and ends, or binds attrs and then raises an error of the class    *)
(* execExc with the message execMsg.                                       *)
Unit(attrs) ==
    [compiles |-> TRUE, execOk |-> TRUE, execExc |-> "", execMsg |-> "", attrs |-> attrs]
BrokenUnit(exc, msg, attrs) ==
    [compiles |-> TRUE, execOk |-> FALSE, execExc |-> exc, execMsg |-> msg, attrs |-> attrs]
SyntaxErrorUnit(msg) ==
    [compiles |-> FALSE, execOk |-> FALSE, execExc |-> "SyntaxError", execMsg |-> msg,
     attrs |-> << >>]
NoModule ==
    [compiles |-> FALSE, execOk |-> FALSE, execExc |-> "", execMsg |-> "", attrs |-> << >>]

(* SCRAPER_FILE, lines 16-17: Path(__file__).parent is "." when the        *)
(* program was started with a relative __file__ in the working directory   *)
(* Cwd, and Cwd itself when __file__ is absolute; the import system        *)
(* reports the absolute path of the file in either case.                   *)
Cwd            == "/srv/app"
MainDirs       == {".", Cwd}
ScraperName    == "phivolcs-earthquake-data-scraper/scrape_phivolcs.py"
ScraperFile(d) == IF d = "." THEN ScraperName ELSE d \o "/" \o ScraperName
AbsPath(d)     == IF d = "." THEN Cwd \o "/" \o ScraperName ELSE ScraperFile(d)

NotFoundMsg(d)    == "Scraper file not found: " \o ScraperFile(d)
ErrnoMsg(d)       == "[Errno 2] No such file or directory: '" \o AbsPath(d) \o "'"
NoDataMsg         == "No scraper function or data found in submodule"
NotIterableMsg(p) == "'" \o p.type \o "' object is not iterable"
NoGetMsg          == "'int' object has no attribute 'get'"
JsonMsg           == "Out of range float values are not JSON compliant"
TemplateMsg       == "earthquakes.html"

----------------------------------------------------------------------------
(* fetch_earthquakes, lines 39-48 *)

(* getattr(mod, fn_name, None) *)
GetAttr(mod, name) ==
    IF name \in DOMAIN mod.attrs THEN mod.attrs[name] ELSE Attribute(NotIterable)

Fetched(calls, data) ==
    [ok |-> TRUE, calls |-> calls, data |-> data, exc |-> "", msg |-> ""]
FetchRaised(calls, exc, m) ==
    [ok |-> FALSE, calls |-> calls, data |-> NotIterable, exc |-> exc, msg |-> m]

(* The value an attribute is bound to: a callable attribute is the        *)
(* function itself.                                                        *)
ValueOf(binding) == IF binding.callable THEN FunctionObject ELSE binding.ret

(* lines 44-48: the fallback attribute as it is bound, else RuntimeError *)
Fallback(mod) ==
    IF "EARTHQUAKES" \in DOMAIN mod.attrs
    THEN Fetched(<< >>, ValueOf(mod.attrs["EARTHQUAKES"]))
    ELSE FetchRaised(<< >>, "RuntimeError", NoDataMsg)

(* lines 39-42: the for loop from the k-th name on *)
RECURSIVE ProbeFrom(_, _)
ProbeFrom(mod, k) ==
    IF k > Len(FnNames) THEN Fallback(mod)
    ELSE LET fn == GetAttr(mod, FnNames[k])
         IN  IF fn.callable
             THEN IF fn.raises THEN FetchRaised(<<FnNames[k]>>, fn.exc, fn.msg)
                  ELSE Fetched(<<FnNames[k]>>, fn.ret)
             ELSE ProbeFrom(mod, k + 1)

----------------------------------------------------------------------------
(* The filter loops of the two handlers *)

(* Mutants of the api loop: a threshold of 2.0, a strict comparison, a     *)
(* list built by prepending, and the defaults of location and depth        *)
(* exchanged.                                                              *)
ApiKeepFromTwo(mag) == GreaterEq(mag, 20)

ApiKeepStrict(mag) == GreaterEq(mag, Threshold) /\ mag # Flt(Threshold)

ApiPrepend(filtered, rec) == <<rec>> \o filtered

ApiRecordSwappedDefaults(eq, mag) ==
    [date      |-> Get(eq, "date", PyStr(<< >>)),
     time      |-> Get(eq, "time", PyStr(<< >>)),
     location  |-> Get(eq, "location", PyStr(<<"N", "/", "A">>)),
     magnitude |-> mag,
     depth     |-> Get(eq, "depth", PyStr(<<"U", "n", "k", "n", "o", "w", "n">>))]

ApiKeep(mag) == GreaterEq(mag, Threshold)                      \* line 62

ApiRecord(eq, mag) ==                                          \* lines 63-69
    [date      |-> Get(eq, "date", PyStr(<< >>)),
     time      |-> Get(eq, "time", PyStr(<< >>)),
     location  |-> Get(eq, "location", PyStr(<<"U", "n", "k", "n", "o", "w", "n">>)),
     magnitude |-> mag,
     depth     |-> Get(eq, "depth", PyStr(<<"N", "/", "A">>))]

ApiAppend(filtered, rec) == Append(filtered, rec)              \* line 63

HomeKeep(mag) == GreaterEq(mag, Threshold)                     \* line 89

HomeRecord(eq, mag) ==                                         \* lines 90-96
    [date      |-> Get(eq, "date", PyStr(<< >>)),
     time      |-> Get(eq, "time", PyStr(<< >>)),
     location  |-> Get(eq, "location", PyStr(<<"U", "n", "k", "n", "o", "w", "n">>)),
     magnitude |-> mag,
     depth     |-> Get(eq, "depth", PyStr(<<"N", "/", "A">>))]

HomeAppend(filtered, rec) == Append(filtered, rec)             \* line 90

(* except (TypeError, ValueError): continue, lines 60-61 and 87-88 *)
ApiSwallows(exc) == exc \in {"TypeError", "ValueError"}

(* Mutant: home catches ValueError alone. *)
HomeSwallowsValueError(exc) == exc = "ValueError"

HomeSwallows(exc) == exc \in {"TypeError", "ValueError"}

(* JSONResponse renders with json.dumps(..., allow_nan=False), line 70:    *)
(* the values are rendered in the order of the list and, in a record, of   *)
(* its keys; the first that is of a type json does not serialise, or is a  *)
(* float that is not finite, raises.                                       *)
JsonTypes == {"str", "int", "float", "bool", "NoneType"}

KeyOrder == <<"date", "time", "location", "magnitude", "depth">>

JsonValue(v) ==
    IF v.t \notin JsonTypes
    THEN Raise("TypeError", "Object of type " \o v.t \o " is not JSON serializable")
    ELSE IF ~IsFinite(v) THEN Raise("ValueError", JsonMsg)
    ELSE Ok(v)

JsonRecord(rec) ==
    LET bad == {k \in 1..Len(KeyOrder) : ~JsonValue(rec[KeyOrder[k]]).ok}
    IN  IF bad = {} THEN Ok(None) ELSE JsonValue(rec[KeyOrder[Least(bad)]])

JsonList(filtered) ==
    LET bad == {k \in 1..Len(filtered) : ~JsonRecord(filtered[k]).ok}
    IN  IF bad = {} THEN Ok(None) ELSE JsonRecord(filtered[Least(bad)])

----------------------------------------------------------------------------
(* State *)

NReq == 2
Reqs == 1..NReq
Endpoints == {"api", "home"}

(* What the import system compares of the file with its cached bytecode:   *)
(* the second of its last modification and its size in bytes.              *)
Stamps == [mtime : {1, 2}, size : {20, 27}]
NoStamp == [mtime |-> 0, size |-> 0]

VARIABLES
    mainDir,      \* Path(__file__).parent, fixed when the program starts
    fileExists,   \* SCRAPER_FILE.exists()
    fileUnit,     \* what the file at SCRAPER_FILE defines when executed
    fileStamp,    \* the stamp of the file
    pyc,          \* __pycache__/scrape_phivolcs.*.pyc beside the file
    templateOk,   \* templates/earthquakes.html is there and renders
    sysModules,   \* sys.modules["phivolcs_scraper"]
    req           \* per request: the handler's position, locals and response

vars == <<mainDir, fileExists, fileUnit, fileStamp, pyc, templateOk, sysModules, req>>

file == <<fileExists, fileUnit, fileStamp>>
host == <<mainDir, templateOk>>

(* The bytecode cache: the code of a unit, and in its header the mtime and *)
(* the size of the source it was compiled from.                            *)
NoPyc                 == [present |-> FALSE, mtime |-> 0, size |-> 0, unit |-> NoModule]
Pyc(mtime, size, unit) == [present |-> TRUE, mtime |-> mtime, size |-> size, unit |-> unit]

(* os.stat of the file, as a load keeps it *)
NoStat        == [ok |-> FALSE, stamp |-> NoStamp]
StatOf(stamp) == [ok |-> TRUE, stamp |-> stamp]

(* The registered module: the request whose load created it and the names  *)
(* the execution of the unit has bound in it.                              *)
NotRegistered        == [owner |-> 0, attrs |-> << >>]
Registered(r, attrs) == [owner |-> r, attrs |-> attrs]

(* A handler about to run: no local is bound yet.  code and size are the   *)
(* code a load is about to execute and the length of the source it read;   *)
(* seen records what the request found of the file when it last looked at  *)
(* it, failedAt the stage that raised, escaped the class of an error that  *)
(* left the handler uncaught.                                              *)
Fresh(ep) ==
    [pc |-> "load", endpoint |-> ep, mod |-> NoModule, data |-> NotIterable,
     idx |-> 0, filtered |-> << >>, calls |-> << >>, loads |-> 0, stat |-> NoStat,
     code |-> NoModule, size |-> 0,
     status |-> 0, detail |-> "", body |-> << >>, failedAt |-> "", escaped |-> "",
     seen |-> [check |-> FALSE, exec |-> FALSE, unit |-> NoModule, template |-> FALSE]]

Idle == [Fresh("") EXCEPT !.pc = "idle"]

(* The classes of errors, of builtins and asyncio, that are not subclasses  *)
(* of Exception                                                            *)
NotExceptions ==
    { "BaseException", "BaseExceptionGroup", "CancelledError", "GeneratorExit",
      "KeyboardInterrupt", "SystemExit" }

(* except Exception as e: raise HTTPException(500, detail=str(e)),         *)
(* lines 71-74 and 98-100: an error of another class is not caught, and    *)
(* leaves the handler with no response made                                *)
HandlerExcept(q, stage, exc, msg) ==
    IF exc \in NotExceptions
    THEN [q EXCEPT !.pc = "done", !.failedAt = stage, !.escaped = exc]
    ELSE [q EXCEPT !.pc = "done", !.status = 500, !.detail = msg, !.failedAt = stage]

----------------------------------------------------------------------------
(* load_scraper_module, lines 20-28 *)

(* lines 22-23: the existence check *)
LoadCheck(r) ==
    /\ req[r].pc = "load"
    /\ LET q == [req[r] EXCEPT !.loads = @ + 1, !.seen.check = fileExists]
       IN  req' = [req EXCEPT ![r] =
                     IF fileExists THEN [q EXCEPT !.pc = "register"]
                     ELSE HandlerExcept(q, "load", "FileNotFoundError", NotFoundMsg(mainDir))]
    /\ UNCHANGED <<file, host, pyc, sysModules>>

(* lines 24-26: a new module object, with none of the names of the unit,   *)
(* takes the place of the registered one; the file is not looked at        *)
LoadRegister(r) ==
    /\ req[r].pc = "register"
    /\ sysModules' = Registered(r, << >>)
    /\ req' = [req EXCEPT ![r].pc = "stat"]
    /\ UNCHANGED <<file, host, pyc>>

(* line 27, exec_module: the mtime and the size of the file are read; when *)
(* that fails the cache is not looked at, and a file that is not there is  *)
(* found out when its source is read                                       *)
LoadStat(r) ==
    /\ req[r].pc = "stat"
    /\ req' = [req EXCEPT ![r] =
                 [@ EXCEPT !.pc = IF fileExists THEN "cache" ELSE "source",
                           !.stat = IF fileExists THEN StatOf(fileStamp) ELSE NoStat,
                           !.seen.exec = fileExists,
                           !.seen.unit = IF fileExists THEN fileUnit ELSE NoModule]]
    /\ UNCHANGED <<file, host, pyc, sysModules>>

(* line 27, exec_module: the cached bytecode is taken when the mtime and   *)
(* the size in its header are those just read of the file, and the source  *)
(* is then not read                                                        *)
LoadCached(r) ==
    /\ req[r].pc = "cache"
    /\ LET hit == /\ pyc.present
                  /\ pyc.mtime = req[r].stat.stamp.mtime
                  /\ pyc.size = req[r].stat.stamp.size
       IN  req' = [req EXCEPT ![r] =
                     IF hit THEN [req[r] EXCEPT !.code = pyc.unit, !.pc = "exec"]
                     ELSE [req[r] EXCEPT !.pc = "source"]]
    /\ UNCHANGED <<file, host, pyc, sysModules>>

(* line 27, exec_module: the source is read and compiled; its bytecode is  *)
(* to be cached when the stat succeeded                                    *)
LoadSource(r) ==
    /\ req[r].pc = "source"
    /\ LET q == [req[r] EXCEPT !.seen.exec = fileExists,
                               !.seen.unit = IF fileExists THEN fileUnit ELSE NoModule]
       IN  req' = [req EXCEPT ![r] =
                     IF ~fileExists
                     THEN HandlerExcept(q, "load", "FileNotFoundError", ErrnoMsg(mainDir))
                     ELSE IF ~fileUnit.compiles
                          THEN HandlerExcept(q, "load", fileUnit.execExc, fileUnit.execMsg)
                     ELSE [q EXCEPT !.code = fileUnit, !.size = fileStamp.size,
                                    !.pc = IF q.stat.ok THEN "write" ELSE "exec"]]
    /\ UNCHANGED <<file, host, pyc, sysModules>>

(* line 27, exec_module: the bytecode is written with the mtime read by    *)
(* the stat and the length of the source read after it (unless bytecode is *)
(* not written, or the writing fails, which is passed over in silence)     *)
LoadWritePyc(r) ==
    /\ req[r].pc = "write"
    /\ pyc' \in {pyc, Pyc(req[r].stat.stamp.mtime, req[r].size, req[r].code)}
    /\ req' = [req EXCEPT ![r].pc = "exec"]
    /\ UNCHANGED <<file, host, sysModules>>

(* the module is returned (line 28) when the code ran to its end *)
Executed(q, u) ==
    IF u.execOk THEN [q EXCEPT !.mod = u, !.pc = "probe"]
    ELSE HandlerExcept(q, "load", u.execExc, u.execMsg)

(* the names the code binds are bound in the module of request r, which is *)
(* the registered one unless another load has replaced it, whether the     *)
(* code then raises or not                                                 *)
Populated(r, u) ==
    IF sysModules.owner = r THEN Registered(r, u.attrs) ELSE sysModules

(* line 27, exec_module: the code is executed in the module *)
LoadExecute(r) ==
    /\ req[r].pc = "exec"
    /\ sysModules' = Populated(r, req[r].code)
    /\ req' = [req EXCEPT ![r] = Executed(req[r], req[r].code)]
    /\ UNCHANGED <<file, host, pyc>>

(* fetch_earthquakes, lines 39-48, on the module bound to the local mod *)
Fetch(r) ==
    /\ req[r].pc = "probe"
    /\ LET f == ProbeFrom(req[r].mod, 1)
           q == [req[r] EXCEPT !.calls = @ \o f.calls]
       IN  req' = [req EXCEPT ![r] =
                     IF f.ok THEN [q EXCEPT !.data = f.data, !.pc = "loop"]
                     ELSE HandlerExcept(q, "fetch", f.exc, f.msg)]
    /\ UNCHANGED <<file, host, pyc, sysModules>>

----------------------------------------------------------------------------
(* api_earthquakes, lines 52-74 *)

(* One pass of the for loop, lines 57-69 *)
ApiIteration(q) ==
    IF ~q.data.iterable
    THEN HandlerExcept(q, "filter", "TypeError", NotIterableMsg(q.data))
    ELSE LET eq == q.data.items[q.idx + 1]
             n  == [q EXCEPT !.idx = @ + 1]
         IN  IF ~eq.mapping THEN HandlerExcept(q, "filter", "AttributeError", NoGetMsg)
             ELSE LET mag == FloatOf(Get(eq.kv, "magnitude", PyInt(0)))
                  IN  IF ~mag.ok
                      THEN IF ApiSwallows(mag.exc) THEN n
                           ELSE HandlerExcept(q, "filter", mag.exc, mag.msg)
                      ELSE IF ApiKeep(mag.val)
                           THEN [n EXCEPT !.filtered =
                                      ApiAppend(@, ApiRecord(eq.kv, mag.val))]
                           ELSE n

ApiLoopStep(r) ==
    /\ req[r].pc = "loop" /\ req[r].endpoint = "api"
    /\ req[r].data.iterable => req[r].idx < Len(req[r].data.items)
    /\ req' = [req EXCEPT ![r] = ApiIteration(req[r])]
    /\ UNCHANGED <<file, host, pyc, sysModules>>

(* line 70: JSONResponse({"status": "success", "data": filtered}) *)
ApiRespond(r) ==
    /\ req[r].pc = "loop" /\ req[r].endpoint = "api"
    /\ req[r].data.iterable /\ req[r].idx = Len(req[r].data.items)
    /\ LET q == req[r]
           j == JsonList(q.filtered)
       IN  req' = [req EXCEPT ![r] =
                     IF j.ok
                     THEN [q EXCEPT !.pc = "done", !.status = 200, !.body = q.filtered]
                     ELSE HandlerExcept(q, "respond", j.exc, j.msg)]
    /\ UNCHANGED <<file, host, pyc, sysModules>>

----------------------------------------------------------------------------
(* home, lines 78-100 *)

(* One pass of the for loop, lines 84-96 *)
HomeIteration(q) ==
    IF ~q.data.iterable
    THEN HandlerExcept(q, "filter", "TypeError", NotIterableMsg(q.data))
    ELSE LET eq == q.data.items[q.idx + 1]
             n  == [q EXCEPT !.idx = @ + 1]
         IN  IF ~eq.mapping THEN HandlerExcept(q, "filter", "AttributeError", NoGetMsg)
             ELSE LET mag == FloatOf(Get(eq.kv, "magnitude", PyInt(0)))
                  IN  IF ~mag.ok
                      THEN IF HomeSwallows(mag.exc) THEN n
                           ELSE HandlerExcept(q, "filter", mag.exc, mag.msg)
                      ELSE IF HomeKeep(mag.val)
                           THEN [n EXCEPT !.filtered =
                                      HomeAppend(@, HomeRecord(eq.kv, mag.val))]
                           ELSE n

HomeLoopStep(r) ==
    /\ req[r].pc = "loop" /\ req[r].endpoint = "home"
    /\ req[r].data.iterable => req[r].idx < Len(req[r].data.items)
    /\ req' = [req EXCEPT ![r] = HomeIteration(req[r])]
    /\ UNCHANGED <<file, host, pyc, sysModules>>

(* line 97: templates.TemplateResponse("earthquakes.html", {...}) *)
HomeRespond(r) ==
    /\ req[r].pc = "loop" /\ req[r].endpoint = "home"
    /\ req[r].data.iterable /\ req[r].idx = Len(req[r].data.items)
    /\ LET q == [req[r] EXCEPT !.seen.template = templateOk]
       IN  req' = [req EXCEPT ![r] =
                     IF templateOk
                     THEN [q EXCEPT !.pc = "done", !.status = 200, !.body = q.filtered]
                     ELSE HandlerExcept(q, "respond", "TemplateNotFound", TemplateMsg)]
    /\ UNCHANGED <<file, host, pyc, sysModules>>

----------------------------------------------------------------------------
(* The host: requests arrive, responses are sent *)

BeginRequest(r, ep) ==
    /\ \A o \in Reqs : req[o].pc = "idle"
    /\ req' = [req EXCEPT ![r] = Fresh(ep)]
    /\ UNCHANGED <<file, host, pyc, sysModules>>

(* The handler has ended, with a response or with an error handed on to    *)
(* the host, and its locals are dropped.                                   *)
Deliver(r) ==
    /\ req[r].pc = "done"
    /\ req' = [req EXCEPT ![r] = Idle]
    /\ UNCHANGED <<file, host, pyc, sysModules>>

----------------------------------------------------------------------------
(* The environment: the scraper submodule and the template change on disk *)

RecLuzon == [magnitude |-> Flt(50), location |-> PyStr(<<"L", "u", "z", "o", "n">>)]
RecFull  == [date      |-> PyStr(<<"2", "0", "2", "4">>),
             time      |-> PyStr(<<"0", "8", ":", "1", "5">>),
             location  |-> PyStr(<<"C", "e", "b", "u">>),
             magnitude |-> PyStr(<<"4", ".", "5">>),
             depth     |-> PyInt(10),
             id        |-> PyInt(7)]
RecSmall == [magnitude |-> Flt(20)]

RecX           == [magnitude |-> PyStr(<<"x">>)]                  \* ValueError
RecNoMagnitude == [location  |-> PyStr(<<"C", "e", "b", "u">>)]   \* parsed from 0
RecThree       == [magnitude |-> Flt(30), depth |-> None]         \* exactly 3.0
(* "2.9999999999999997" reads as the double just below 3.0 *)
RecJustBelow   == [magnitude |-> PyStr(<<"2", ".">> \o [k \in 1..15 |-> "9"] \o <<"7">>)]
RecNone        == [magnitude |-> None, date |-> PyStr(<<"2", "0", "2", "4">>)]  \* TypeError
RecBigInt      == [magnitude |-> BigInt]                          \* OverflowError
RecInf         == [magnitude |-> PyStr(<<"i", "n", "f">>)]        \* float("inf")
RecNanDepth    == [magnitude |-> PyInt(4), depth |-> NaN]
(* an ideographic space, a fullwidth 3 and a newline read as 3.0 *)
RecWideThree   == [magnitude |-> PyStr(<<"\\u3000", "\\uff13", "\n">>)]
(* "2.99999999999999999999" reads as 3.0 itself *)
RecNearlyThree == [magnitude |-> PyStr(<<"2", ".">> \o [k \in 1..20 |-> "9"])]
RecBytes       == [magnitude |-> PyBytes(<<"5">>), time |-> PyBytes(<<"n", "o", "o", "n">>)]
RecTrue        == [magnitude |-> PyBool(TRUE)]                    \* True is 1.0

UnitA == Unit([scrape_phivolcs |-> Callable(ListOf(<<Item(RecLuzon)>>))])
UnitB == Unit([scrape          |-> Attribute(NotIterable),
               get_data        |-> Callable(ListOf(<<Item(RecSmall), Item(RecFull)>>)),
               EARTHQUAKES     |-> Attribute(ListOf(<<Item(RecLuzon)>>))])
UnitC == Unit([get_earthquakes |-> Raising("ConnectionError", "connection refused"),
               get_data        |-> Callable(ListOf(<<Item(RecLuzon)>>))])
UnitD == Unit([helper |-> Callable(NotIterable)])

SpecUnits == {UnitA, UnitB, UnitC, UnitD}

(* The file is removed; its cached bytecode stays. *)
RemoveFile ==
    /\ fileExists
    /\ fileExists' = FALSE
    /\ fileUnit' = NoModule
    /\ fileStamp' = NoStamp
    /\ UNCHANGED <<host, pyc, sysModules, req>>

(* The file is written with the contents u; st is its stamp afterwards,    *)
(* the one it had when it is rewritten with as many bytes within the       *)
(* second, or with its mtime set back.                                     *)
WriteFile(u, st) ==
    /\ ~fileExists \/ fileUnit # u \/ fileStamp # st
    /\ fileExists' = TRUE
    /\ fileUnit' = u
    /\ fileStamp' = st
    /\ UNCHANGED <<host, pyc, sysModules, req>>

SetTemplate(b) ==
    /\ templateOk # b
    /\ templateOk' = b
    /\ UNCHANGED <<file, mainDir, pyc, sysModules, req>>

----------------------------------------------------------------------------
(* Specifications *)

Step(r) ==
    \/ LoadCheck(r)
    \/ LoadRegister(r)
    \/ LoadStat(r)
    \/ LoadCached(r)
    \/ LoadSource(r)
    \/ LoadWritePyc(r)
    \/ LoadExecute(r)
    \/ Fetch(r)
    \/ ApiLoopStep(r)
    \/ ApiRespond(r)
    \/ HomeLoopStep(r)
    \/ HomeRespond(r)

(* The disk of a fresh checkout: the file is there or not, and nothing has *)
(* been compiled yet.                                                      *)
FreshDisk(units, stamps) ==
    /\ fileExists \in BOOLEAN
    /\ fileUnit \in (IF fileExists THEN units ELSE {NoModule})
    /\ fileStamp \in (IF fileExists THEN stamps ELSE {NoStamp})
    /\ pyc = NoPyc
    /\ sysModules = NotRegistered

(* The server as deployed: handlers hold no await, so the event loop runs  *)
(* one request at a time, here as request 1; the disk changes at any       *)
(* moment.                                                                 *)
Init ==
    /\ mainDir = Cwd
    /\ FreshDisk(SpecUnits, Stamps)
    /\ templateOk \in BOOLEAN
    /\ req = [r \in Reqs |-> Idle]

Next ==
    \/ \E ep \in Endpoints : BeginRequest(1, ep)
    \/ \E r \in Reqs : Step(r)
    \/ \E r \in Reqs : Deliver(r)
    \/ RemoveFile
    \/ \E u \in SpecUnits, st \in Stamps : WriteFile(u, st)
    \/ \E b \in BOOLEAN : SetTemplate(b)

Spec == Init /\ [][Next]_vars

----------------------------------------------------------------------------
(* Requests served concurrently (a threaded or multi-loop host): the steps *)
(* of the requests interleave freely with each other and with the disk,    *)
(* which is written within one second.                                     *)

ConcUnits == {UnitA, UnitB}

InitConc ==
    /\ mainDir = Cwd
    /\ FreshDisk(ConcUnits, {st \in Stamps : st.mtime = 1})
    /\ templateOk = TRUE
    /\ req \in [Reqs -> {Fresh(ep) : ep \in Endpoints}]

NextConc ==
    \/ \E r \in Reqs : Step(r)
    \/ RemoveFile
    \/ \E u \in ConcUnits, st \in Stamps : st.mtime = 1 /\ WriteFile(u, st)

SpecConc == InitConc /\ [][NextConc]_vars

----------------------------------------------------------------------------
(* One request against a fixed disk, with a template that renders: the raw *)
(* records are drawn from RawSamples, in every order and with repetition,  *)
(* up to MaxLen of them.                                                   *)

MaxLen == 3

RawSamples ==
    { RecLuzon, RecFull, RecSmall, RecX, RecNoMagnitude, RecThree, RecJustBelow,
      RecNone, RecBigInt, RecInf, RecNanDepth, RecWideThree, RecNearlyThree,
      RecBytes, RecTrue }

SeqsUpTo(S, n) == UNION {[1..k -> S] : k \in 0..n}

(* A scraper whose scrape_phivolcs() returns data. *)
ScraperOf(data) == Unit([scrape_phivolcs |-> Callable(data)])

InitFilter ==
    /\ mainDir = Cwd
    /\ fileExists = TRUE
    /\ \E items \in SeqsUpTo({Item(kv) : kv \in RawSamples}, MaxLen) :
           fileUnit = ScraperOf(ListOf(items))
    /\ fileStamp \in Stamps /\ fileStamp.mtime = 1 /\ fileStamp.size = 20
    /\ pyc = NoPyc
    /\ templateOk = TRUE
    /\ sysModules = NotRegistered
    /\ \E ep \in Endpoints :
           req = [r \in Reqs |-> IF r = 1 THEN Fresh(ep) ELSE Idle]

NextRun == \E r \in Reqs : Step(r)

SpecFilter == InitFilter /\ [][NextRun]_vars

----------------------------------------------------------------------------
(* One request against every shape of scraper unit: each of the four names *)
(* and EARTHQUAKES is absent or bound, to a callable or not; or the file   *)
(* does not compile, or raises when executed; its bytecode is cached or    *)
(* not.                                                                    *)

AllNames == {FnNames[k] : k \in 1..Len(FnNames)} \cup {"EARTHQUAKES"}

LoaderPayloads ==
    { ListOf(<<Item(RecLuzon)>>), ListOf(<<Item(RecFull), NonMapping>>), NotIterable }

Absent ==
    [callable |-> FALSE, raises |-> TRUE, exc |-> "", msg |-> "absent", ret |-> NotIterable]

FnBindings ==
    {Absent, Attribute(NotIterable), Raising("ConnectionError", "connection refused"),
     Raising("SystemExit", "scraper gave up")}
        \cup {Callable(p) : p \in LoaderPayloads}

DataBindings ==
    {Absent, Callable(ListOf(<<Item(RecLuzon)>>))}
        \cup {Attribute(p) : p \in LoaderPayloads}

UnitOf(c) == Unit([n \in {m \in AllNames : c[m] # Absent} |-> c[n]])

LoaderUnits ==
    { UnitOf(c) : c \in { d \in [AllNames -> FnBindings \cup DataBindings] :
                            /\ d["EARTHQUAKES"] \in DataBindings
                            /\ \A k \in 1..Len(FnNames) : d[FnNames[k]] \in FnBindings } }

(* A file that raises at its first statement, one that binds EARTHQUAKES   *)
(* and get_data and then raises, one that is interrupted or calls          *)
(* sys.exit(), and one that does not compile.                              *)
FailingUnits ==
    { BrokenUnit("ModuleNotFoundError", "No module named 'requests'", << >>),
      BrokenUnit("KeyboardInterrupt", "", << >>),
      BrokenUnit("BaseExceptionGroup", "grp (1 sub-exception)", << >>),
      BrokenUnit("CancelledError", "cancelled", << >>),
      BrokenUnit("SystemExit", "1", << >>),
      BrokenUnit("RuntimeError", "boom",
                         [EARTHQUAKES |-> Attribute(ListOf(<<Item(RecLuzon)>>)),
                          get_data    |-> Callable(ListOf(<<Item(RecFull)>>))]),
      SyntaxErrorUnit("invalid syntax (scrape_phivolcs.py, line 1)") }

InitLoader ==
    /\ mainDir \in MainDirs
    /\ fileExists \in BOOLEAN
    /\ fileUnit \in (IF fileExists THEN LoaderUnits \cup FailingUnits ELSE {NoModule})
    /\ fileStamp \in (IF fileExists THEN {st \in Stamps : st.mtime = 1 /\ st.size = 20}
                      ELSE {NoStamp})
    /\ pyc \in {NoPyc} \cup (IF fileUnit.compiles
                             THEN {Pyc(fileStamp.mtime, fileStamp.size, fileUnit)}
                             ELSE {})
    /\ templateOk \in BOOLEAN
    /\ sysModules = NotRegistered
    /\ \E ep \in Endpoints :
           req = [r \in Reqs |-> IF r = 1 THEN Fresh(ep) ELSE Idle]

SpecLoader == InitLoader /\ [][NextRun]_vars

----------------------------------------------------------------------------
(* The two endpoints on the same value of fetch_earthquakes(): one request *)
(* is GET /api/earthquakes, another is GET /.                              *)

MaxPairLen == 2

PairSamples ==
    { RecLuzon, RecSmall, RecX, RecNone, RecBigInt, RecInf, RecNanDepth, RecBytes }

InitPair ==
    /\ mainDir = Cwd
    /\ fileExists = TRUE
    /\ \E data \in {NotIterable} \cup
                   {ListOf(items) :
                      items \in SeqsUpTo({Item(kv) : kv \in PairSamples} \cup {NonMapping},
                                         MaxPairLen)} :
           fileUnit = ScraperOf(data)
    /\ fileStamp \in Stamps /\ fileStamp.mtime = 1 /\ fileStamp.size = 20
    /\ pyc = NoPyc
    /\ templateOk \in BOOLEAN
    /\ sysModules = NotRegistered
    /\ req = [r \in Reqs |-> IF r = 1 THEN Fresh("api")
                             ELSE IF r = 2 THEN Fresh("home") ELSE Idle]

SpecPair == InitPair /\ [][NextRun]_vars

----------------------------------------------------------------------------
(* What the specification expects of each sample record: whether it is     *)
(* retained and with which magnitude, and the record it is presented as.   *)

Retained(mag) == [kept |-> TRUE, mag |-> mag]
Excluded      == [kept |-> FALSE, mag |-> None]

Claimed(kv) ==
    IF "magnitude" \notin DOMAIN kv THEN Excluded          \* parsed from 0: 0.0
    ELSE LET m == kv["magnitude"]
         IN  CASE m.t = "float" /\ m.s = << >> ->
                      IF m.n >= 30 THEN Retained(m) ELSE Excluded
               [] m = PyStr(<<"4", ".", "5">>)   -> Retained(Flt(45))
               [] m = RecWideThree.magnitude     -> Retained(Flt(30))
               [] m = RecNearlyThree.magnitude   -> Retained(Flt(30))
               [] m = PyStr(<<"i", "n", "f">>)   -> Retained(PosInf)
               [] m = PyInt(4)                   -> Retained(Flt(40))
               [] m = PyBytes(<<"5">>)           -> Retained(Flt(50))
               [] OTHER                          -> Excluded
                      \* "x", None: skipped; True is 1.0; 2.9999999999999997 < 3.0

FiveKeys == {"date", "time", "location", "magnitude", "depth"}

Presented(kv) ==
    [k \in FiveKeys |->
        IF k = "magnitude" THEN Claimed(kv).mag
        ELSE IF k \in DOMAIN kv THEN kv[k]
        ELSE IF k = "location" THEN PyStr(<<"U", "n", "k", "n", "o", "w", "n">>)
        ELSE IF k = "depth" THEN PyStr(<<"N", "/", "A">>)
        ELSE PyStr(<< >>)]

(* The requests whose filter loop has started, and the raw records each    *)
(* has been through so far.                                                *)
Filtering == {r \in Reqs : req[r].pc \in {"loop", "done"} /\ req[r].data.iterable}
Processed(r) == SubSeq(req[r].data.items, 1, req[r].idx)
LoopEnded(r) ==
    /\ r \in Filtering
    /\ req[r].idx = Len(req[r].data.items)
    /\ req[r].failedAt \in {"", "respond"}

----------------------------------------------------------------------------
(* C1: in every state of the filter loop of either handler, every record   *)
(* of the filtered list has a float magnitude and that magnitude is at     *)
(* least 3.0.                                                              *)
C1_MagnitudeAtLeastThree ==
    \A r \in Reqs : \A k \in 1..Len(req[r].filtered) :
        LET m == req[r].filtered[k]["magnitude"]
        IN  /\ m.t = "float"
            /\ m \notin {NaN, NegInf, NegLarge}
            /\ m.s = << >> => m.n >= 30

(* Mid-loop, one record retained and one dropped, more records to come. *)
C1_Witness ==
    \E r \in Reqs :
        /\ req[r].pc = "loop"
        /\ req[r].idx < Len(req[r].data.items)
        /\ Len(req[r].filtered) >= 1
        /\ req[r].idx > Len(req[r].filtered)

(* C2: a raw record is in the filter output iff its magnitude parses to a  *)
(* number >= 3.0: of the records gone through, exactly those expected are  *)
(* retained, each with the parsed number ("4.5" as 4.5, 3.0 retained), a   *)
(* missing magnitude is excluded and an unparsable one ("x", None) is      *)
(* skipped.                                                                *)
C2_RetainedIffParsesAtLeastThree ==
    \A r \in Filtering :
        LET in  == Processed(r)
            out == req[r].filtered
            kept == {k \in 1..Len(in) : Claimed(in[k].kv).kept}
        IN  /\ Len(out) = Cardinality(kept)
            /\ \A k \in kept :
                   \E j \in 1..Len(out) :
                       /\ out[j]["magnitude"] = Claimed(in[k].kv).mag
                       /\ out[j]["location"] = Presented(in[k].kv)["location"]
            /\ \A j \in 1..Len(out) :
                   \E k \in kept : out[j]["magnitude"] = Claimed(in[k].kv).mag

(* The loop has ended over "4.5", a missing magnitude and None. *)
C2_Witness ==
    \E r \in Reqs :
        /\ LoopEnded(r)
        /\ \E a, b, c \in 1..Len(req[r].data.items) :
              /\ req[r].data.items[a].kv = RecFull
              /\ "magnitude" \notin DOMAIN req[r].data.items[b].kv
              /\ Get(req[r].data.items[c].kv, "magnitude", PyInt(0)) = None
        /\ Len(req[r].filtered) = 1
        /\ req[r].filtered[1]["magnitude"] = Flt(45)

OtherValuesRenderable(items) ==
    \A k \in 1..Len(items) :
        \A key \in DOMAIN items[k].kv \ {"magnitude"} : JsonValue(items[k].kv[key]).ok

(* C3 (as stated): a request over mapping-like records, whose values other *)
(* than the magnitudes are presentable and whose template renders, always  *)
(* ends with 200, whatever the magnitudes are.                             *)
C3_BadMagnitudeNeverEscalates ==
    \A r \in Reqs :
        ( /\ req[r].pc = "done"
          /\ req[r].data.iterable
          /\ \A k \in 1..Len(req[r].data.items) : req[r].data.items[k].mapping
          /\ OtherValuesRenderable(req[r].data.items)
          /\ req[r].endpoint = "home" => req[r].seen.template )
        => req[r].status = 200

RECURSIVE IsSubsequence(_, _)
IsSubsequence(out, in) ==
    IF out = << >> THEN TRUE
    ELSE IF in = << >> THEN FALSE
    ELSE IF Claimed(Head(in).kv).kept /\ Head(out) = Presented(Head(in).kv)
         THEN IsSubsequence(Tail(out), Tail(in))
         ELSE IsSubsequence(out, Tail(in))

(* C6: the filter output is a subsequence of the input: the retained       *)
(* records keep their relative order, none is duplicated, and the output   *)
(* is no longer than the input.                                            *)
C6_OutputIsSubsequence ==
    \A r \in Filtering :
        /\ Len(req[r].filtered) <= req[r].idx
        /\ IsSubsequence(req[r].filtered, Processed(r))

(* Two different records retained, with a dropped one between them. *)
C6_Witness ==
    \E r \in Reqs :
        /\ LoopEnded(r)
        /\ Len(req[r].data.items) = 3
        /\ Len(req[r].filtered) = 2
        /\ req[r].filtered[1] # req[r].filtered[2]
        /\ ~Claimed(req[r].data.items[2].kv).kept

EndToEndInput == <<Item(RecLuzon), Item(RecSmall), Item(RecX)>>

EndToEndOutput ==
    << [date |-> PyStr(<< >>), time |-> PyStr(<< >>), location |-> RecLuzon.location,
        magnitude |-> Flt(50), depth |-> PyStr(<<"N", "/", "A">>)] >>

(* C7: every output record has exactly the keys date, time, location,      *)
(* magnitude, depth; an absent date or time is "", an absent location      *)
(* "Unknown", an absent depth "N/A", a present value is passed through,    *)
(* the magnitude is the parsed number and other keys are dropped; the      *)
(* input [{5.0, Luzon}, {2.0}, {"x"}] gives exactly                        *)
(* [{"", "", Luzon, 5.0, "N/A"}].                                          *)
C7_FiveKeysWithDefaults ==
    \A r \in Filtering :
        /\ \A j \in 1..Len(req[r].filtered) :
              /\ DOMAIN req[r].filtered[j] = FiveKeys
              /\ \E k \in 1..req[r].idx :
                    req[r].filtered[j] = Presented(req[r].data.items[k].kv)
        /\ (LoopEnded(r) /\ req[r].data.items = EndToEndInput)
              => req[r].filtered = EndToEndOutput
        /\ (req[r].pc = "done" /\ req[r].status = 200)
              => req[r].body = req[r].filtered

(* The end-to-end example has been served. *)
C7_Witness ==
    \E r \in Reqs :
        /\ req[r].pc = "done" /\ req[r].status = 200
        /\ req[r].data.items = EndToEndInput
        /\ req[r].body = EndToEndOutput

----------------------------------------------------------------------------
(* The entry point the specification expects fetch_earthquakes() to use. *)

ClaimedOrder == <<"scrape_phivolcs", "scrape", "get_earthquakes", "get_data">>

CallableIn(m) ==
    {k \in 1..Len(ClaimedOrder) :
        ClaimedOrder[k] \in DOMAIN m.attrs /\ m.attrs[ClaimedOrder[k]].callable}

FirstCallable(m) == CHOOSE k \in CallableIn(m) : \A j \in CallableIn(m) : k <= j

HasData(m) == "EARTHQUAKES" \in DOMAIN m.attrs

(* The requests whose load_scraper_module() returned a module. *)
Loaded == {r \in Reqs : req[r].pc \in {"loop", "done"} /\ req[r].failedAt # "load"}

(* C4: fetch_earthquakes() invokes the first of scrape_phivolcs, scrape,   *)
(* get_earthquakes, get_data that is bound to a callable, once, and        *)
(* returns its result; a non-callable binding is passed over; EARTHQUAKES  *)
(* is returned only when none of the four is callable; no other callable   *)
(* is invoked.                                                             *)
C4_FirstCallableWins ==
    \A r \in Loaded :
        LET m == req[r].mod
        IN  IF CallableIn(m) # {}
            THEN LET fn == m.attrs[ClaimedOrder[FirstCallable(m)]]
                 IN  /\ req[r].calls = <<ClaimedOrder[FirstCallable(m)]>>
                     /\ ~fn.raises => req[r].data = fn.ret /\ req[r].failedAt # "fetch"
                     /\ fn.raises => req[r].failedAt = "fetch"
            ELSE /\ req[r].calls = << >>
                 /\ HasData(m) => /\ req[r].data = ValueOf(m.attrs["EARTHQUAKES"])
                                  /\ req[r].failedAt # "fetch"
                 /\ ~HasData(m) => req[r].failedAt = "fetch"

(* scrape_phivolcs is bound to a non-callable, get_earthquakes was invoked *)
(* and served, get_data is callable too and EARTHQUAKES is there.          *)
C4_Witness ==
    \E r \in Reqs :
        /\ req[r].pc = "done" /\ req[r].status = 200
        /\ "scrape_phivolcs" \in DOMAIN req[r].mod.attrs
        /\ CallableIn(req[r].mod) = {3, 4}
        /\ HasData(req[r].mod)
        /\ req[r].calls = <<"get_earthquakes">>
        /\ req[r].mod.attrs["get_data"].ret # req[r].data
        /\ req[r].mod.attrs["EARTHQUAKES"].ret # req[r].data

AllMappings(p) == p.iterable /\ \A k \in 1..Len(p.items) : p.items[k].mapping

Fails(r, msg) == req[r].status = 500 /\ req[r].detail = msg

(* C5 (as stated): every failure of the loader or of the pipeline behind   *)
(* it (file missing, unit without entry point or data, unit or entry point *)
(* raising, entry point returning something that is not an iterable of     *)
(* mappings) ends the request with a 500 whose detail is the error's       *)
(* message, on both endpoints; the loader runs once per request, nothing   *)
(* is retried and no lower-priority entry point is tried after a raise; no *)
(* failing request yields a 200.                                           *)
C5_LoaderFailuresGive500 ==
    \A r \in Reqs : req[r].pc = "done" =>
        LET m == fileUnit
            C == CallableIn(m)
            fn == m.attrs[ClaimedOrder[FirstCallable(m)]]
            payload == IF C # {} THEN fn.ret ELSE ValueOf(m.attrs["EARTHQUAKES"])
        IN  /\ req[r].loads = 1
            /\ Len(req[r].calls) <= 1
            /\ req[r].status \in {200, 500}
            /\ IF ~fileExists
               THEN Fails(r, NotFoundMsg(mainDir)) /\ req[r].calls = << >>
               ELSE IF ~m.compiles \/ ~m.execOk
                    THEN Fails(r, m.execMsg) /\ req[r].calls = << >>
               ELSE IF C = {} /\ ~HasData(m) THEN Fails(r, NoDataMsg)
               ELSE IF C # {} /\ fn.raises
                    THEN /\ Fails(r, fn.msg)
                         /\ req[r].calls = <<ClaimedOrder[FirstCallable(m)]>>
               ELSE IF ~payload.iterable THEN Fails(r, NotIterableMsg(payload))
               ELSE IF ~AllMappings(payload) THEN Fails(r, NoGetMsg)
               ELSE req[r].status = 200 \/ req[r].failedAt = "respond"

----------------------------------------------------------------------------
(* What a request served alone answers, for each of the units the disk     *)
(* takes in Spec and SpecConc.                                             *)

Response(status, detail, body) == [status |-> status, detail |-> detail, body |-> body]

ResponseOf(r) == Response(req[r].status, req[r].detail, req[r].body)

Rendered(ep, template, body) ==
    IF ep = "home" /\ ~template THEN Response(500, TemplateMsg, << >>)
    ELSE Response(200, "", body)

ServedAlone(unit, ep, template) ==
    CASE unit = UnitA -> Rendered(ep, template, <<Presented(RecLuzon)>>)
      [] unit = UnitB -> Rendered(ep, template, <<Presented(RecFull)>>)
      [] unit = UnitC -> Response(500, "connection refused", << >>)
      [] unit = UnitD -> Response(500, NoDataMsg, << >>)

(* The disk as the request saw it: at the existence check, then at the     *)
(* read of the file.                                                       *)
AnswerFor(seen, ep) ==
    IF ~seen.check THEN Response(500, NotFoundMsg(mainDir), << >>)
    ELSE IF ~seen.exec THEN Response(500, ErrnoMsg(mainDir), << >>)
    ELSE ServedAlone(seen.unit, ep, seen.template)

(* C8 (as stated): the unit is located and loaded afresh by every request  *)
(* and nothing is carried over: whatever requests and changes of the disk  *)
(* came before, a response is the one the file as this request found it    *)
(* calls for.                                                              *)
C8_NothingCarriedOver ==
    \A r \in Reqs : req[r].pc = "done" =>
        ResponseOf(r) = AnswerFor(req[r].seen, req[r].endpoint)

ChosenPayload(m) ==
    IF CallableIn(m) # {} THEN m.attrs[ClaimedOrder[FirstCallable(m)]].ret
    ELSE ValueOf(m.attrs["EARTHQUAKES"])

(* C9 (as stated): under any interleaving of requests, each request calls  *)
(* the entry point of the module it loaded itself and answers as it would  *)
(* alone against the unit as the file held it when the request loaded it,  *)
(* whichever module is registered in sys.modules by then.                  *)
C9_OwnModuleUnderConcurrency ==
    \A r \in Loaded :
        /\ req[r].mod = req[r].seen.unit
        /\ req[r].failedAt # "fetch" => req[r].data = ChosenPayload(req[r].seen.unit)
        /\ req[r].pc = "done" =>
              ResponseOf(r) = ServedAlone(req[r].seen.unit, req[r].endpoint,
                                          req[r].seen.template)

----------------------------------------------------------------------------
(* The two endpoints side by side (SpecPair) *)

ApiReq  == CHOOSE r \in Reqs : req[r].endpoint = "api"
HomeReq == CHOOSE r \in Reqs : req[r].endpoint = "home"

BothDone == req[ApiReq].pc = "done" /\ req[HomeReq].pc = "done"

BeforeResponse == {"load", "fetch", "filter"}

(* C10 (as stated): on the same value of fetch_earthquakes() the list home *)
(* binds to the template equals the list api_earthquakes returns, and the  *)
(* two endpoints fail on the same inputs, home alone having one more way   *)
(* to fail, the rendering of the template.                                 *)
C10_SameListsSameFailures ==
    BothDone =>
        /\ (req[ApiReq].status = 200 /\ req[HomeReq].status = 200)
              => req[ApiReq].body = req[HomeReq].body
        /\ req[ApiReq].status = 500 => req[HomeReq].status = 500
        /\ (req[HomeReq].status = 500 /\ req[HomeReq].failedAt # "respond")
              => req[ApiReq].status = 500

(* C10 (amended): the two loops build the same list, step for step, and    *)
(* the two endpoints fail in the loader and in the filter loop on the same *)
(* inputs with the same message; past the loop home fails only in the      *)
(* rendering of the template and api_earthquakes only in the JSON          *)
(* rendering of a retained record that holds a value JSON cannot carry (a  *)
(* non-finite float, or a value of a type json does not serialise).        *)
C10_SameListsSameLoopFailures ==
    LET a == req[ApiReq]
        h == req[HomeReq]
    IN  /\ (a.pc \in {"loop", "done"} /\ h.pc \in {"loop", "done"} /\ a.idx = h.idx)
              => a.filtered = h.filtered
        /\ BothDone =>
              /\ a.failedAt \in BeforeResponse <=> h.failedAt \in BeforeResponse
              /\ a.failedAt \in BeforeResponse
                    => a.failedAt = h.failedAt /\ a.detail = h.detail
              /\ (a.status = 200 /\ h.status = 200) => a.body = h.body
              /\ a.status = 200 => a.body = h.filtered
              /\ h.status = 200 => h.body = a.filtered
              /\ h.failedAt = "respond" <=>
                    (h.failedAt \notin BeforeResponse /\ ~h.seen.template)
              /\ a.failedAt = "respond" <=>
                    /\ a.failedAt \notin BeforeResponse
                    /\ ~JsonList(a.filtered).ok

(* Both endpoints served the same non-empty list, over an input with a     *)
(* record that was skipped.                                                *)
C10_Witness ==
    /\ BothDone
    /\ req[ApiReq].status = 200 /\ req[HomeReq].status = 200
    /\ req[ApiReq].body = req[HomeReq].body
    /\ Len(req[ApiReq].body) >= 1
    /\ Len(req[ApiReq].data.items) > Len(req[ApiReq].body)

=============================================================================
